---------------------------- MODULE Spec2Model ----------------------------
(***************************************************************************)
(* A model of tcga_util.py: the label builders (process_y_matrix,          *)
(* process_y_matrix_cancertype), align_matrices, extract_coefficients and  *)
(* build_feature_dictionary.                                               *)
(*                                                                         *)
(* A pandas Series or DataFrame indexed by sample is a function from its   *)
(* index (a set of sample ids) to a value or to a record of its columns.   *)
(* A table whose row order matters is a sequence of rows.                  *)
(***************************************************************************)
EXTENDS Integers, Sequences, FiniteSets, TLC

VARIABLES
    \* ---- the label builders (process_y_matrix, process_y_matrix_cancertype)
    y_mutation,        \* the caller's mutation status Series
    y_copy,            \* the caller's copy number status Series
    include_copy,      \* argument
    sample_freeze,     \* SAMPLE_BARCODE -> DISEASE
    mutation_burden,   \* sample -> log10_mut
    filter_count,      \* argument
    filter_prop,       \* argument, a fraction [num, den]
    hyper_filter,      \* argument
    acronym,           \* argument of process_y_matrix_cancertype
    pc,                \* the position in the function being run
    y_df,              \* the local y_df
    filter_file,       \* the file {gene}_filtered_cancertypes.tsv
    count_df,          \* the count table process_y_matrix_cancertype returns
    \* ---- align_matrices
    x_file_or_df,      \* argument: the feature table, a sequence of rows
    y,                 \* argument: the label table, a sequence of rows
    add_cancertype_covariate,
    aligned,           \* what align_matrices returned, or that it raised
    \* ---- extract_coefficients
    feature_names,     \* argument
    coef_,             \* final_classifier.coef_[0]
    coef_df,           \* the table returned
    \* ---- build_feature_dictionary
    models_dir,        \* argument, a path segment
    files,             \* the files under the per-dimensionality directories
    load_data,         \* argument
    store_train_test,  \* argument
    z_matrix_dict,     \* the nested dictionary, keyed by key path
    num_models,
    index_pc,          \* "idle", "loop" or "returned"
    signals_left,      \* the values the outer loop has yet to take
    signal,            \* the outer loop variable
    dirs_left,         \* the entries of os.listdir still to visit
    comp_dir,          \* the middle loop variable
    files_left         \* the results of glob.glob still to visit

\* the arguments and tables no statement assigns to
label_args == <<y_copy, include_copy, sample_freeze, mutation_burden, acronym>>

label_vars == <<y_mutation, y_copy, include_copy, sample_freeze, mutation_burden,
                filter_count, filter_prop, hyper_filter, acronym, pc, y_df,
                filter_file, count_df>>

align_vars == <<x_file_or_df, y, add_cancertype_covariate, aligned>>

coef_vars == <<feature_names, coef_, coef_df>>

index_vars == <<models_dir, files, load_data, store_train_test, z_matrix_dict,
                num_models, index_pc, signals_left, signal, dirs_left, comp_dir,
                files_left>>

vars == <<label_vars, align_vars, coef_vars, index_vars>>

---------------------------------------------------------------------------
\* Bounds and input domains

NumSamples == 2

Samples == 1..NumSamples

Diseases == {"BRCA", "LUAD"}

\* the DISEASE of a row the left join found no metadata for
NaN == "NaN"

\* log10_mut values (integers stand for the floats)
LogVals == {-1, 4}

\* raw indicator values; 2 is an entry greater than 1
MutationVals == {0, 1, 2}

CopyVals == {0, 1}

FilterCounts == {0, 1}

FilterProps == {[num |-> 0, den |-> 1], [num |-> 1, den |-> 2]}

HyperFilters == {1, 5}

\* every Series over a subset of the samples with values in V
PartialSeries(V) == UNION {[D -> V] : D \in SUBSET Samples}

---------------------------------------------------------------------------
\* Arithmetic helpers

RECURSIVE SumOver(_, _)
SumOver(f, S) ==
    IF S = {} THEN 0
    ELSE LET s == CHOOSE t \in S : TRUE
         IN  f[s] + SumOver(f, S \ {s})

\* x < h * sqrt(V / D) for integers x, h and V >= 0, D > 0
LessThanScaledRoot(x, h, V, D) ==
    IF h >= 0
    THEN x < 0 \/ x * x * D < h * h * V
    ELSE x < 0 /\ x * x * D > h * h * V

\* Series.std() (ddof = 1) of column log10_mut is sqrt(StdNum / StdDen);
\* it is NaN for fewer than two rows
StdDefined(df) == Cardinality(DOMAIN df) >= 2

StdNum(df) ==
    LET n  == Cardinality(DOMAIN df)
        S  == SumOver([s \in DOMAIN df |-> df[s].log10_mut], DOMAIN df)
        SS == SumOver([s \in DOMAIN df |-> df[s].log10_mut * df[s].log10_mut], DOMAIN df)
    IN  n * SS - S * S

StdDen(df) ==
    LET n == Cardinality(DOMAIN df)
    IN  n * (n - 1)

\* a variant: the threshold is the mean plus hyper_filter standard deviations
BurdenFilterAboutMean(df, h, s) ==
    LET n == Cardinality(DOMAIN df)
        S == SumOver([t \in DOMAIN df |-> df[t].log10_mut], DOMAIN df)
    IN  /\ StdDefined(df)
        /\ LessThanScaledRoot(n * df[s].log10_mut - S, h * n, StdNum(df), StdDen(df))

\* y_df["log10_mut"] < hyper_filter * y_df["log10_mut"].std(), for row s
BurdenFilter(df, h, s) ==
    /\ StdDefined(df)
    /\ LessThanScaledRoot(df[s].log10_mut, h, StdNum(df), StdDen(df))

\* lines 307-308: y_df.loc[burden_filter, :]
BurdenRows(df, h) == [s \in {t \in DOMAIN df : BurdenFilter(df, h, t)} |-> df[s]]

---------------------------------------------------------------------------
\* process_y_matrix

\* a variant: the sum is left as it is
ClampNothing(series) == series

\* y_df.loc[y_df > 1] = 1
Clamp(series) == [s \in DOMAIN series |-> IF series[s] > 1 THEN 1 ELSE series[s]]

\* y_copy + y_mutation (both over the same samples)
AddSeries(a, b) == [s \in DOMAIN a \cap DOMAIN b |-> a[s] + b[s]]

\* lines 237-244: the raw status; with include_copy false y_df is the caller's
\* y_mutation object itself, so the assignment through .loc writes into it
PymCombine ==
    /\ pc = "pym_start"
    /\ LET combined == IF include_copy THEN AddSeries(y_copy, y_mutation)
                       ELSE y_mutation
       IN  /\ y_df' = [s \in DOMAIN combined |-> [status |-> Clamp(combined)[s]]]
           /\ y_mutation' = IF include_copy THEN y_mutation ELSE Clamp(combined)
    /\ pc' = "pym_combined"
    /\ UNCHANGED <<label_args, filter_count, filter_prop, hyper_filter, filter_file,
                   count_df, align_vars, coef_vars, index_vars>>

\* lines 246-252: left join on the metadata, inner join on the burden table
MergeCovariates(df, freeze, burden) ==
    [s \in DOMAIN df \cap DOMAIN burden |->
        [status    |-> df[s].status,
         DISEASE   |-> IF s \in DOMAIN freeze THEN freeze[s] ELSE NaN,
         log10_mut |-> burden[s]]]

\* groupby("DISEASE") drops the rows whose DISEASE is NaN
DiseaseGroups(df) == {df[s].DISEASE : s \in DOMAIN df} \ {NaN}

RowsOf(df, d) == {s \in DOMAIN df : df[s].DISEASE = d}

\* line 255: y_df.groupby("DISEASE").sum()["status"]
DiseaseCount(df, d) == SumOver([s \in DOMAIN df |-> df[s].status], RowsOf(df, d))

\* line 258: y_df["DISEASE"].value_counts()
DiseaseTotal(df, d) == Cardinality(RowsOf(df, d))

\* a variant: either threshold is enough
DiseaseIncludedEither(count, total, fcount, fprop) ==
    \/ count > fcount
    \/ count * fprop.den > fprop.num * total

\* lines 262-264
DiseaseIncluded(count, total, fcount, fprop) ==
    /\ count > fcount
    /\ count * fprop.den > fprop.num * total

\* lines 255-272
StatsTable(df, fcount, fprop) ==
    [d \in DiseaseGroups(df) |->
        [status_count      |-> DiseaseCount(df, d),
         status_proportion |-> [num |-> DiseaseCount(df, d), den |-> DiseaseTotal(df, d)],
         disease_included  |-> DiseaseIncluded(DiseaseCount(df, d), DiseaseTotal(df, d),
                                               fcount, fprop)]]

\* a variant: the statistics of the rows a burden filter keeps
DiseaseStatsAfterBurden(df, fcount, fprop) ==
    StatsTable(BurdenRows(df, 1), fcount, fprop)

\* lines 254-272: the statistics of the merged table, before any filter
DiseaseStats(df, fcount, fprop) == StatsTable(df, fcount, fprop)

\* lines 246-276: the covariates are merged onto the status, and the
\* statistics of the merged table are written to the filter file.  The
\* arguments filter_count and filter_prop, first read here, are drawn here.
PymStats ==
    /\ pc = "pym_combined"
    /\ filter_count' \in FilterCounts
    /\ filter_prop' \in FilterProps
    /\ y_df' = MergeCovariates(y_df, sample_freeze, mutation_burden)
    /\ filter_file' = [written |-> TRUE,
                       rows |-> DiseaseStats(y_df', filter_count', filter_prop')]
    /\ pc' = "pym_written"
    /\ UNCHANGED <<y_mutation, label_args, hyper_filter, count_df, align_vars,
                   coef_vars, index_vars>>

\* line 279
UseDiseases(stats) == {d \in DOMAIN stats : stats[d].disease_included}

\* a variant: the burden filter alone
FilterRowsBurdenOnly(df, h, use_diseases) == BurdenRows(df, h)

\* lines 280-281
FilterRows(df, h, use_diseases) ==
    [s \in {t \in DOMAIN df : BurdenFilter(df, h, t) /\ df[t].DISEASE \in use_diseases}
        |-> df[s]]

\* lines 278-283; disease_stats_df is the table line 276 wrote.  The argument
\* hyper_filter, first read here, is drawn here.
PymFilter ==
    /\ pc = "pym_written"
    /\ hyper_filter' \in HyperFilters
    /\ y_df' = FilterRows(y_df, hyper_filter', UseDiseases(filter_file.rows))
    /\ pc' = "pym_done"
    /\ UNCHANGED <<y_mutation, label_args, filter_count, filter_prop, filter_file,
                   count_df, align_vars, coef_vars, index_vars>>

---------------------------------------------------------------------------
\* process_y_matrix_cancertype

\* lines 300-301: sample_freeze.assign(status=0), then status = 1 where
\* DISEASE == acronym
AssignStatus(freeze, acr) ==
    [s \in DOMAIN freeze |->
        [status |-> IF freeze[s] = acr THEN 1 ELSE 0, DISEASE |-> freeze[s]]]

\* lines 303-305: inner join on the burden table
MergeBurden(df, burden) ==
    [s \in DOMAIN df \cap DOMAIN burden |->
        [status    |-> df[s].status,
         DISEASE   |-> df[s].DISEASE,
         log10_mut |-> burden[s]]]

\* lines 310-311: y_df.status.value_counts() as a table, one row per status
\* value that occurs
ValueCounts(df) ==
    {[status |-> v, count |-> Cardinality({s \in DOMAIN df : df[s].status = v})] :
        v \in {df[s].status : s \in DOMAIN df}}

\* a variant: the counts of the table before the burden filter
CancertypeCountsUnfiltered(merged, filtered) == ValueCounts(merged)

\* line 310: the counts are those of y_df after line 308
CancertypeCounts(merged, filtered) == ValueCounts(filtered)

\* lines 300-313
PymCancertype ==
    /\ pc = "ct_start"
    /\ LET merged   == MergeBurden(AssignStatus(sample_freeze, acronym), mutation_burden)
           filtered == BurdenRows(merged, hyper_filter)
       IN  /\ y_df' = filtered
           /\ count_df' = CancertypeCounts(merged, filtered)
    /\ pc' = "ct_done"
    /\ UNCHANGED <<y_mutation, label_args, filter_count, filter_prop, hyper_filter,
                   filter_file, align_vars, coef_vars, index_vars>>

---------------------------------------------------------------------------
\* align_matrices.  A table is a sequence of rows, each with its index label
\* in field sample; the feature values are left out (no claim reads them).

\* the index of a table, in row order
IndexOf(table) == [i \in 1..Len(table) |-> table[i].sample]

IndexSet(table) == {table[i].sample : i \in 1..Len(table)}

\* the sequences that list every element of S once: the orders in which a set
\* can be iterated
Orderings(S) ==
    {o \in [1..Cardinality(S) -> S] : \A i, j \in 1..Cardinality(S) : o[i] = o[j] => i = j}

RowAt(table, s) == table[CHOOSE i \in 1..Len(table) : table[i].sample = s]

\* a variant: the rows with a label of the set, in the table's own order
ReindexKeepingRowOrder(table, order) ==
    SelectSeq(table, LAMBDA r : \E i \in 1..Len(order) : order[i] = r.sample)

\* lines 337-338: df.reindex(use_samples), the labels taken in the order the
\* set yields them
Reindex(table, order) == [i \in 1..Len(order) |-> RowAt(table, order[i])]

\* lines 345-353: the covariate columns merged onto the features by index
\* (an inner join that keeps the left order; the index of y is unique)
MergeCovariateColumns(x, labels, with_cancertype) ==
    [i \in 1..Len(x) |->
        [sample    |-> x[i].sample,
         log10_mut |-> RowAt(labels, x[i].sample).log10_mut,
         dummies   |-> IF with_cancertype
                       THEN {d \in {labels[j].DISEASE : j \in 1..Len(labels)} :
                                 RowAt(labels, x[i].sample).DISEASE = d}
                       ELSE {}]]

NotCalled == [status |-> "not called"]

\* lines 334-355; StandardScaler.fit_transform (line 341) raises on a table
\* with no row
AlignMatrices ==
    /\ aligned = NotCalled
    /\ LET use_samples == IndexSet(y) \cap IndexSet(x_file_or_df)
       IN  IF use_samples = {}
           THEN aligned' = [status |-> "raised"]
           ELSE \E order \in Orderings(use_samples) :
                    LET x_df == Reindex(x_file_or_df, order)
                        y_re == Reindex(y, order)
                    IN  aligned' =
                            [status      |-> "returned",
                             use_samples |-> use_samples,
                             x_df        |-> MergeCovariateColumns(
                                                 x_df, y_re, add_cancertype_covariate),
                             y           |-> y_re]
    /\ UNCHANGED <<x_file_or_df, y, add_cancertype_covariate, label_vars, coef_vars, index_vars>>

\* the tables with a unique index over a subset of the samples, in every row
\* order
FeatureTables ==
    UNION {{[i \in 1..Len(o) |-> [sample |-> o[i]]] : o \in Orderings(D)} :
               D \in SUBSET Samples}

LabelTables ==
    UNION {UNION {{[i \in 1..Len(o) |->
                       [sample |-> o[i], status |-> 0, DISEASE |-> dis[o[i]],
                        log10_mut |-> 4]] :
                    o \in Orderings(D)} : dis \in [D -> Diseases]} :
               D \in SUBSET Samples}

IdleAlign ==
    /\ x_file_or_df = <<>>
    /\ y = <<>>
    /\ add_cancertype_covariate = TRUE
    /\ aligned = NotCalled

---------------------------------------------------------------------------
\* extract_coefficients

Abs(w) == IF w < 0 THEN -w ELSE w

\* a variant: ascending
SortsAscending(keys, perm) ==
    \A i \in 1..(Len(perm) - 1) : keys[perm[i]] <= keys[perm[i + 1]]

\* line 199: sort_values("abs", ascending=False): perm lists the rows by
\* descending key (the order among equal keys is the sort's own)
SortsDescending(keys, perm) ==
    \A i \in 1..(Len(perm) - 1) : keys[perm[i]] >= keys[perm[i + 1]]

\* lines 193-202
ExtractCoefficients ==
    /\ coef_df = NotCalled
    /\ LET n    == Len(coef_)
           \* line 193-198: one row per feature, with its absolute weight
           rows == [i \in 1..n |->
                       [index |-> i - 1, feature |-> feature_names[i],
                        weight |-> coef_[i], abs |-> Abs(coef_[i])]]
       IN  \E perm \in Orderings(1..n) :
               /\ SortsDescending([i \in 1..n |-> rows[i].abs], perm)
               \* line 200: reset_index(drop=True) renumbers the rows
               /\ coef_df' = [status |-> "returned",
                              rows |-> [i \in 1..n |->
                                           [rows[perm[i]] EXCEPT !.index = i - 1]]]
    /\ UNCHANGED <<feature_names, coef_, label_vars, align_vars, index_vars>>

IdleCoef ==
    /\ feature_names = <<>>
    /\ coef_ = <<>>
    /\ coef_df = NotCalled

---------------------------------------------------------------------------
\* build_feature_dictionary.  A path is a sequence of segments (its parts
\* between "/"), a segment a sequence of tokens (its parts between "_"); no
\* token holds a "/" or a "_".

\* the tokens that have "shuffled" as a substring, and those that end with it
ShuffledTokens == {"shuffled", "unshuffled"}

\* "_test_" in path: a token "test" with a "_" on both sides
ContainsTestMarker(path) ==
    \E k \in 1..Len(path) :
        \E i \in 2..(Len(path[k]) - 1) : path[k][i] = "test"

\* "shuffled" in path
ContainsShuffled(path) ==
    \E k \in 1..Len(path) :
        \E i \in 1..Len(path[k]) : path[k][i] \in ShuffledTokens

\* the file name matches *_z_*
MatchesZ(name) == \E i \in 2..(Len(name) - 1) : name[i] = "z"

\* the file name matches *shuffled_z_*
MatchesShuffledZ(name) ==
    \E i \in 1..(Len(name) - 2) : name[i] \in ShuffledTokens /\ name[i + 1] = "z"

\* lines 46-48 and 51: os.path.join(models_dir, "ensemble_z_matrices", comp_dir),
\* and below it the file
PathOf(mdir, f) == <<mdir, <<"ensemble", "z", "matrices">>, f.dir, f.name>>

\* lines 55-58: glob.glob(pattern.format(matrix_comp_dir))
Glob(all_files, sig, dir) ==
    {f \in all_files :
        /\ f.dir = dir
        /\ IF sig = "shuffled" THEN MatchesShuffledZ(f.name) ELSE MatchesZ(f.name)}

\* the dictionary: a function from key paths to nodes, a node a dictionary
\* or a stored value
DictNode == [kind |-> "dict"]

IsPrefix(k, x) == Len(k) <= Len(x) /\ \A i \in 1..Len(k) : x[i] = k[i]

\* d[k1]...[kn] = {}: whatever was below the key is dropped
SetEmptyDict(d, k) ==
    [x \in {t \in DOMAIN d : ~IsPrefix(k, t)} \cup {k} |->
        IF x = k THEN DictNode ELSE d[x]]

\* d[k1]...[kn] = value
SetValue(d, k, value) ==
    [x \in DOMAIN d \cup {k} |-> IF x = k THEN value ELSE d[x]]

\* lines 66-70: if key not in ....keys(): ...[key] = {}
EnsureDict(d, k) == IF k \in DOMAIN d THEN d ELSE SetEmptyDict(d, k)

\* lines 75-80, 85-90: the table read from the file, or its path
StoredValue(load, f) == [kind |-> "leaf", file |-> f, loaded |-> load]

\* a variant: only a file that is stored is counted
CountsAsModelIfStored(is_test, store) == ~is_test /\ store # "test"

\* lines 72-74, 81-84: the file is counted when it is not a test file,
\* before store_train_test is looked at
CountsAsModel(is_test, store) == ~is_test

\* lines 73, 83: the continue statements
IsStored(is_test, store) ==
    IF is_test THEN store # "train" ELSE store # "test"

\* lines 43-44: the outer loop takes its next value
IndexStartPass ==
    /\ index_pc = "loop"
    /\ dirs_left = {} /\ files_left = {}
    /\ signals_left # <<>>
    /\ signal' = Head(signals_left)
    /\ signals_left' = Tail(signals_left)
    /\ z_matrix_dict' = SetEmptyDict(z_matrix_dict, <<Head(signals_left)>>)
    \* line 50: os.listdir(matrix_dir)
    /\ dirs_left' = {f.dir : f \in files}
    /\ UNCHANGED <<models_dir, files, load_data, store_train_test, num_models,
                   index_pc, comp_dir, files_left, label_vars, align_vars, coef_vars>>

\* lines 50-58: the middle loop takes a directory, in whatever order
\* os.listdir gave
IndexEnterDir ==
    /\ index_pc = "loop"
    /\ files_left = {}
    /\ \E dir \in dirs_left :
           LET z_dim == dir[Len(dir)]
           IN  /\ comp_dir' = dir
               /\ dirs_left' = dirs_left \ {dir}
               /\ z_matrix_dict' = SetEmptyDict(z_matrix_dict, <<signal, z_dim>>)
               /\ files_left' = Glob(files, signal, dir)
    /\ UNCHANGED <<models_dir, files, load_data, store_train_test, num_models,
                   index_pc, signals_left, signal, label_vars, align_vars, coef_vars>>

\* lines 58-90: one iteration of the inner loop, on a file in whatever order
\* glob.glob gave
IndexVisitFile ==
    /\ index_pc = "loop"
    /\ \E z_file \in files_left :
           LET path    == PathOf(models_dir, z_file)
               z_dim   == comp_dir[Len(comp_dir)]
               seed    == z_file.name[2]
               alg     == z_file.name[1]
               is_test == ContainsTestMarker(path)
               split   == IF is_test THEN "test" ELSE "train"
               with_seed == EnsureDict(z_matrix_dict, <<signal, z_dim, seed>>)
               with_alg  == EnsureDict(with_seed, <<signal, z_dim, seed, alg>>)
           IN  /\ files_left' = files_left \ {z_file}
               /\ IF signal = "signal" /\ ContainsShuffled(path)
                  THEN UNCHANGED <<z_matrix_dict, num_models>>
                  ELSE /\ num_models' = IF CountsAsModel(is_test, store_train_test)
                                        THEN num_models + 1 ELSE num_models
                       /\ z_matrix_dict' =
                              IF IsStored(is_test, store_train_test)
                              THEN SetValue(with_alg, <<signal, z_dim, seed, alg, split>>,
                                            StoredValue(load_data, z_file))
                              ELSE with_alg
    /\ UNCHANGED <<models_dir, files, load_data, store_train_test, index_pc,
                   signals_left, signal, dirs_left, comp_dir, label_vars, align_vars,
                   coef_vars>>

\* line 92
IndexReturn ==
    /\ index_pc = "loop"
    /\ signals_left = <<>> /\ dirs_left = {} /\ files_left = {}
    /\ index_pc' = "returned"
    /\ UNCHANGED <<models_dir, files, load_data, store_train_test, z_matrix_dict,
                   num_models, signals_left, signal, dirs_left, comp_dir, files_left,
                   label_vars, align_vars, coef_vars>>

IdleIndex ==
    /\ models_dir = <<>>
    /\ files = {}
    /\ load_data = FALSE
    /\ store_train_test = "both"
    /\ z_matrix_dict = <<>>
    /\ num_models = 0
    /\ index_pc = "idle"
    /\ signals_left = <<>>
    /\ signal = ""
    /\ dirs_left = {}
    /\ comp_dir = <<>>
    /\ files_left = {}

---------------------------------------------------------------------------
\* The label builders' specification: one call of either function, on every
\* input of the domains

NoFile == [written |-> FALSE, rows |-> <<>>]

Acronyms == Diseases \cup {"OV"}

\* the pipeline has read the metadata and the burden table; no label builder
\* is called yet
InitLabel ==
    /\ sample_freeze \in PartialSeries(Diseases)
    /\ mutation_burden \in PartialSeries(LogVals)
    /\ y_mutation = <<>>
    /\ y_copy = <<>>
    /\ include_copy = FALSE
    /\ filter_count = 0
    /\ filter_prop = [num |-> 0, den |-> 1]
    /\ hyper_filter = 0
    /\ acronym = ""
    /\ pc = "loaded"
    /\ y_df = <<>>
    /\ filter_file = NoFile
    /\ count_df = {}
    /\ IdleAlign
    /\ IdleCoef
    /\ IdleIndex

\* lines 207-218: process_y_matrix is called, on every status vector of the
\* domains
PymCall ==
    /\ pc = "loaded"
    /\ y_mutation' \in [Samples -> MutationVals]
    /\ y_copy' \in [Samples -> CopyVals]
    /\ include_copy' \in BOOLEAN
    /\ pc' = "pym_start"
    /\ UNCHANGED <<sample_freeze, mutation_burden, filter_count, filter_prop,
                   hyper_filter, acronym, y_df, filter_file, count_df,
                   align_vars, coef_vars, index_vars>>

\* lines 286-288: process_y_matrix_cancertype is called
CancertypeCall ==
    /\ pc = "loaded"
    /\ acronym' \in Acronyms
    /\ hyper_filter' \in HyperFilters
    /\ pc' = "ct_start"
    /\ UNCHANGED <<y_mutation, y_copy, include_copy, sample_freeze, mutation_burden,
                   filter_count, filter_prop, y_df, filter_file, count_df,
                   align_vars, coef_vars, index_vars>>

\* no label builder runs
IdleLabel ==
    /\ y_mutation = <<>>
    /\ y_copy = <<>>
    /\ include_copy = FALSE
    /\ sample_freeze = <<>>
    /\ mutation_burden = <<>>
    /\ filter_count = 0
    /\ filter_prop = [num |-> 0, den |-> 1]
    /\ hyper_filter = 0
    /\ acronym = ""
    /\ pc = "idle"
    /\ y_df = <<>>
    /\ filter_file = NoFile
    /\ count_df = {}

NextLabel ==
    \/ PymCall
    \/ PymCombine
    \/ PymStats
    \/ PymFilter
    \/ CancertypeCall
    \/ PymCancertype

SpecLabel == InitLabel /\ [][NextLabel]_vars

\* align_matrices on every pair of tables over the samples
InitAlign ==
    /\ x_file_or_df \in FeatureTables
    /\ y \in LabelTables
    /\ add_cancertype_covariate \in BOOLEAN
    /\ aligned = NotCalled
    /\ IdleLabel
    /\ IdleCoef
    /\ IdleIndex

SpecAlign == InitAlign /\ [][AlignMatrices]_vars

MaxFeatures == 3

WeightVals == {-2, -1, 0, 1, 2}

\* extract_coefficients on every weight vector of up to MaxFeatures features
InitCoef ==
    /\ \E n \in 0..MaxFeatures :
           /\ feature_names = [i \in 1..n |-> i]
           /\ coef_ \in [1..n -> WeightVals]
    /\ coef_df = NotCalled
    /\ IdleLabel
    /\ IdleAlign
    /\ IdleIndex

SpecCoef == InitCoef /\ [][ExtractCoefficients]_vars

ModelsDirs == {<<"models">>, <<"my", "test", "models">>}

DirLow == <<"components", "2">>

DirHigh == <<"components", "5">>

FileUniverse ==
    {[dir |-> DirLow, name |-> n] :
        n \in {<<"pca", "1", "z", "matrix">>,
               <<"pca", "1", "z", "test", "matrix">>,
               <<"pca", "1", "shuffled", "z", "matrix">>,
               <<"pca", "1", "shuffled", "z", "test", "matrix">>,
               <<"nmf", "1", "z", "test">>,
               <<"nmf", "2", "z", "shuffled">>}}
    \cup
    {[dir |-> DirHigh, name |-> n] :
        n \in {<<"pca", "1", "z", "matrix">>,
               <<"pca", "1", "shuffled", "z", "test", "matrix">>}}

\* build_feature_dictionary on every set of files of the universe
InitIndex ==
    /\ models_dir \in ModelsDirs
    /\ files \in SUBSET FileUniverse
    /\ load_data \in BOOLEAN
    /\ store_train_test \in {"train", "test", "both"}
    \* lines 41-42
    /\ z_matrix_dict = <<>>
    /\ num_models = 0
    /\ index_pc = "loop"
    /\ signals_left = <<"signal", "shuffled">>
    /\ signal = ""
    /\ dirs_left = {}
    /\ comp_dir = <<>>
    /\ files_left = {}
    /\ IdleLabel
    /\ IdleAlign
    /\ IdleCoef

NextIndex == IndexStartPass \/ IndexEnterDir \/ IndexVisitFile \/ IndexReturn

SpecIndex == InitIndex /\ [][NextIndex]_vars

---------------------------------------------------------------------------
\* What the claims about the label builders speak of, stated on the inputs

PymAfterCombine == {"pym_combined", "pym_written", "pym_done"}

\* the samples of the status vector that the burden table also holds
Joined == Samples \cap DOMAIN mutation_burden

\* the samples of the metadata that the burden table also holds
JoinedCancertype == DOMAIN sample_freeze \cap DOMAIN mutation_burden

TypeOf(s) == IF s \in DOMAIN sample_freeze THEN sample_freeze[s] ELSE NaN

Positive(s) ==
    IF include_copy THEN y_copy[s] + y_mutation[s] >= 1 ELSE y_mutation[s] >= 1

JoinedOfType(d) == {s \in Joined : TypeOf(s) = d}

PositiveCount(d) == Cardinality({s \in JoinedOfType(d) : Positive(s)})

\* count > filter_count and count / total > filter_prop
PassesBoth(d) ==
    /\ PositiveCount(d) > filter_count
    /\ PositiveCount(d) * filter_prop.den
           > filter_prop.num * Cardinality(JoinedOfType(d))

\* log10_mut of s is strictly below hyper_filter standard deviations (ddof 1)
\* of the log10_mut of the samples J, with no mean added
BelowThreshold(s, J) ==
    LET n  == Cardinality(J)
        S  == SumOver(mutation_burden, J)
        SS == SumOver([t \in J |-> mutation_burden[t] * mutation_burden[t]], J)
        x  == mutation_burden[s]
    IN  /\ n >= 2
        /\ \/ x < 0
           \/ x * x * n * (n - 1) < hyper_filter * hyper_filter * (n * SS - S * S)

\* C1: a cancer-type is flagged as included if and only if its positive count
\* is strictly greater than filter_count and its positive proportion strictly
\* greater than filter_prop, and every sample of the returned label vector is
\* of an included cancer-type (never of a type failing either condition,
\* never without a cancer-type).
C1_RetainedIffBothThresholds ==
    /\ filter_file.written =>
           \A d \in DOMAIN filter_file.rows :
               filter_file.rows[d].disease_included <=> PassesBoth(d)
    /\ pc = "pym_done" =>
           \A s \in DOMAIN y_df :
               /\ y_df[s].DISEASE \in Diseases
               /\ PassesBoth(y_df[s].DISEASE)

\* a cancer-type whose count passes and whose proportion fails, and a sample
\* of it that the burden filter would keep, absent from the result
C1_Witness ==
    /\ pc = "pym_done"
    /\ \E d \in DOMAIN filter_file.rows :
           /\ ~filter_file.rows[d].disease_included
           /\ filter_file.rows[d].status_count > filter_count
           /\ \E s \in JoinedOfType(d) :
                  BelowThreshold(s, Joined) /\ s \notin DOMAIN y_df

\* C3: for indicators in {0,1}, the status of a sample is the logical OR of
\* its mutation and copy-number indicators when include_copy is true and the
\* mutation indicator alone when it is false, and every status is 0 or 1.
C3_StatusIsLogicalOr ==
    (/\ pc \in PymAfterCombine
     /\ \A s \in Samples : y_mutation[s] \in {0, 1} /\ y_copy[s] \in {0, 1})
    => \A s \in DOMAIN y_df :
           /\ y_df[s].status \in {0, 1}
           /\ y_df[s].status =
                  IF include_copy
                  THEN (IF y_mutation[s] = 1 \/ y_copy[s] = 1 THEN 1 ELSE 0)
                  ELSE y_mutation[s]

C3_Witness ==
    /\ pc = "pym_done"
    /\ include_copy
    /\ \E s \in DOMAIN y_df :
           y_mutation[s] = 1 /\ y_copy[s] = 1 /\ y_df[s].status = 1

\* C4: in both label builders a joined sample passes the burden filter if and
\* only if its log10_mut is strictly below hyper_filter times the standard
\* deviation of log10_mut over all joined samples (those of cancer-types
\* excluded later too), with no mean added to the threshold.
C4_BurdenThreshold ==
    /\ pc = "pym_done" =>
           \A s \in Joined :
               s \in DOMAIN y_df <=>
                   (BelowThreshold(s, Joined) /\ TypeOf(s) # NaN /\ PassesBoth(TypeOf(s)))
    /\ pc = "ct_done" =>
           \A s \in JoinedCancertype :
               s \in DOMAIN y_df <=> BelowThreshold(s, JoinedCancertype)

C4_Witness ==
    /\ pc = "pym_done"
    /\ \E s \in Joined, t \in Joined :
           /\ TypeOf(s) \in DOMAIN filter_file.rows
           /\ filter_file.rows[TypeOf(s)].disease_included
           /\ s \notin DOMAIN y_df
           /\ TypeOf(t) \in DOMAIN filter_file.rows
           /\ ~filter_file.rows[TypeOf(t)].disease_included

\* the status vector shares no sample with the metadata, or none with the
\* burden table
Unjoinable == Samples \cap DOMAIN sample_freeze = {} \/ Joined = {}

C6_InputsReadOnly ==
    [][(pc \in ({"pym_start"} \cup PymAfterCombine))
           => (y_mutation' = y_mutation /\ y_copy' = y_copy)]_vars

\* C7: process_y_matrix_cancertype returns the samples in both the metadata
\* and the burden table that pass the burden filter, each with status 1 if
\* and only if its DISEASE is acronym and 0 otherwise, and a count table
\* giving, for each status value, the number of returned samples with it.
C7_CancertypeLabels ==
    pc = "ct_done" =>
        /\ DOMAIN y_df = {s \in JoinedCancertype : BelowThreshold(s, JoinedCancertype)}
        /\ \A s \in DOMAIN y_df :
               /\ y_df[s].status \in {0, 1}
               /\ y_df[s].status = 1 <=> sample_freeze[s] = acronym
        /\ \A v \in {0, 1} :
               LET n == Cardinality({s \in DOMAIN y_df : y_df[s].status = v})
               IN  /\ n > 0 => [status |-> v, count |-> n] \in count_df
                   /\ \A r \in count_df : r.status = v => (r.count = n /\ n > 0)
        /\ \A r \in count_df : r.status \in {0, 1}

C7_Witness ==
    /\ pc = "ct_done"
    /\ \E s \in JoinedCancertype : s \notin DOMAIN y_df /\ sample_freeze[s] = acronym
    /\ \E r \in count_df : r.status = 1

\* C9: the filter report is written before any sample is dropped; it holds
\* one row for every cancer-type among the joined samples, with the number of
\* positive joined samples of the type, that number over the number of joined
\* samples of the type, and the retention decision.
C9_ReportBeforeFiltering ==
    /\ filter_file.written <=> pc \in {"pym_written", "pym_done"}
    /\ pc = "pym_written" => DOMAIN y_df = Joined
    /\ filter_file.written =>
           /\ DOMAIN filter_file.rows = {TypeOf(s) : s \in Joined} \ {NaN}
           /\ \A d \in DOMAIN filter_file.rows :
                  LET row == filter_file.rows[d]
                  IN  /\ row.status_count = PositiveCount(d)
                      /\ row.status_proportion.num * Cardinality(JoinedOfType(d))
                             = PositiveCount(d) * row.status_proportion.den
                      /\ row.status_proportion.den > 0
                      /\ pc = "pym_done" =>
                             \A s \in JoinedOfType(d) :
                                 s \in DOMAIN y_df <=>
                                     (row.disease_included /\ BelowThreshold(s, Joined))

\* a retained cancer-type with fewer positives returned than the report counts
C9_Witness ==
    /\ pc = "pym_done"
    /\ \E d \in DOMAIN filter_file.rows :
           /\ filter_file.rows[d].disease_included
           /\ \E s \in DOMAIN y_df : y_df[s].DISEASE = d
           /\ Cardinality({s \in DOMAIN y_df : y_df[s].DISEASE = d /\ y_df[s].status = 1})
                  < filter_file.rows[d].status_count

\* C2: when align_matrices returns, the sample set it returns is the
\* intersection of the sample ids of X and of y, and the feature table and
\* the label table returned both have exactly that set as their row index, in
\* the same order and with the same number of rows.
C2_AlignedOnIntersection ==
    aligned.status = "returned" =>
        /\ aligned.use_samples =
               {x_file_or_df[i].sample : i \in 1..Len(x_file_or_df)}
                   \cap {y[i].sample : i \in 1..Len(y)}
        /\ Len(aligned.x_df) = Len(aligned.y)
        /\ Len(aligned.y) = Cardinality(aligned.use_samples)
        /\ \A i \in 1..Len(aligned.y) : aligned.x_df[i].sample = aligned.y[i].sample
        /\ {aligned.y[i].sample : i \in 1..Len(aligned.y)} = aligned.use_samples

\* both tables hold the same two samples, in different row orders
C2_Witness ==
    /\ aligned.status = "returned"
    /\ Cardinality(aligned.use_samples) >= 2
    /\ \E i \in 1..Len(y) : i <= Len(x_file_or_df) /\ x_file_or_df[i].sample # y[i].sample

\* C8: extract_coefficients returns a permutation of the (feature, weight)
\* pairs, each row with abs = |weight|, in descending order of |weight|, the
\* row index renumbered 0..n-1 in that order.
C8_SortedByAbsoluteWeight ==
    coef_df.status = "returned" =>
        LET rows == coef_df.rows
            n    == Len(coef_)
        IN  /\ Len(rows) = n
            /\ \A j \in 1..n :
                   Cardinality({i \in 1..n : /\ rows[i].feature = feature_names[j]
                                             /\ rows[i].weight = coef_[j]}) = 1
            /\ \A i \in 1..n :
                   /\ rows[i].abs = IF rows[i].weight < 0 THEN -rows[i].weight
                                    ELSE rows[i].weight
                   /\ rows[i].index = i - 1
            /\ \A i \in 1..(n - 1) : rows[i].abs >= rows[i + 1].abs

\* the largest weight in absolute value is negative and was not the first
C8_Witness ==
    /\ coef_df.status = "returned"
    /\ Len(coef_) >= 3
    /\ coef_df.rows[1].weight < 0
    /\ coef_df.rows[1].feature # feature_names[1]
    /\ coef_df.rows[1].abs > coef_df.rows[2].abs
    /\ coef_df.rows[2].abs > coef_df.rows[3].abs

IndexLeaves == {k \in DOMAIN z_matrix_dict : z_matrix_dict[k].kind = "leaf"}

\* the files the signal pass and the shuffled pass count as models
SignalModels ==
    {f \in files : /\ MatchesZ(f.name)
                   /\ ~ContainsShuffled(PathOf(models_dir, f))
                   /\ ~ContainsTestMarker(PathOf(models_dir, f))}

ShuffledModels ==
    {f \in files : /\ MatchesShuffledZ(f.name)
                   /\ ~ContainsTestMarker(PathOf(models_dir, f))}

\* C10: a file is recorded under index[signal][z_dim][seed][alg][split] with
\* split "test" if and only if its path contains "_test_" and "train"
\* otherwise; no file whose path contains "shuffled" is under "signal" and
\* every file under "shuffled" has "shuffled_z_" in its name; with
\* store_train_test "train" there is no "test" entry and with "test" no
\* "train" entry; and num_models is the number of files that are not test
\* files and are not skipped, over both passes, whatever store_train_test is.
C10_FeatureDictionary ==
    /\ \A k \in IndexLeaves :
           LET f    == z_matrix_dict[k].file
               path == PathOf(models_dir, f)
           IN  /\ Len(k) = 5
               /\ f \in files
               /\ k[2] = f.dir[Len(f.dir)] /\ k[3] = f.name[2] /\ k[4] = f.name[1]
               /\ k[5] \in {"test", "train"}
               /\ k[5] = "test" <=> ContainsTestMarker(path)
               /\ k[1] \in {"signal", "shuffled"}
               /\ k[1] = "signal" => ~ContainsShuffled(path)
               /\ k[1] = "shuffled" => MatchesShuffledZ(f.name)
               /\ store_train_test = "train" => k[5] # "test"
               /\ store_train_test = "test" => k[5] # "train"
    /\ index_pc = "returned" =>
           num_models = Cardinality(SignalModels) + Cardinality(ShuffledModels)

\* only test files are stored, and files of both passes were counted
C10_Witness ==
    /\ index_pc = "returned"
    /\ store_train_test = "test"
    /\ SignalModels # {} /\ ShuffledModels # {}
    /\ \E k \in IndexLeaves : k[1] = "signal"
    /\ \E k \in IndexLeaves : k[1] = "shuffled"

===========================================================================
